---------------------------- MODULE Spec2Model ----------------------------
(***************************************************************************)
(* Model of src/proyecto1/pan.js: two browser simulations of ten agents    *)
(* under an accumulation/redistribution rule.  Variant 1 (lines 1-475) is  *)
(* the "bread affordability" page, variant 2 (lines 477-832) the "wealth   *)
(* concentration / Gini" page.                                             *)
(*                                                                         *)
(* JavaScript numbers are IEEE-754 binary64 values.  They are modelled     *)
(* bit-exactly: a number is a sign, a 53-bit significand and a binary      *)
(* exponent, and + - * / round to nearest, ties to even, as the language   *)
(* prescribes.  The significand does not fit TLC's integers, so it is kept *)
(* as a little-endian sequence of 14-bit limbs.  The values the simulation *)
(* reaches stay far from overflow and from the subnormal range, so neither *)
(* is modelled.                                                            *)
(***************************************************************************)
EXTENDS Integers, Sequences, FiniteSets, TLC

(***************************************************************************)
(* Natural numbers of arbitrary size: little-endian limb sequences in base *)
(* 2^14 with no high zero limb; <<>> is 0.                                 *)
(***************************************************************************)
Base == 2^14

Min(x, y) == IF x < y THEN x ELSE y

BLimb(a, i) == IF i >= 1 /\ i <= Len(a) THEN a[i] ELSE 0

RECURSIVE BNorm(_)
BNorm(a) ==
    IF a = <<>> THEN a
    ELSE IF a[Len(a)] = 0 THEN BNorm(SubSeq(a, 1, Len(a) - 1)) ELSE a

BFromInt(n) == BNorm(<<n % Base, (n \div Base) % Base, n \div (Base * Base)>>)

RECURSIVE BAddFrom(_, _, _, _)
BAddFrom(a, b, i, c) ==
    IF i > Len(a) /\ i > Len(b) THEN (IF c = 0 THEN <<>> ELSE <<c>>)
    ELSE LET s == BLimb(a, i) + BLimb(b, i) + c
         IN  <<s % Base>> \o BAddFrom(a, b, i + 1, s \div Base)

BAdd(a, b) == BAddFrom(a, b, 1, 0)

RECURSIVE BSubFrom(_, _, _, _)
BSubFrom(a, b, i, borrow) ==
    IF i > Len(a) THEN <<>>
    ELSE LET d == Base + a[i] - BLimb(b, i) - borrow
         IN  <<d % Base>> \o BSubFrom(a, b, i + 1, IF d < Base THEN 1 ELSE 0)

\* a - b for a >= b
BSub(a, b) == BNorm(BSubFrom(a, b, 1, 0))

\* -1, 0 or 1 as a < b, a = b, a > b
BCmp(a, b) ==
    IF Len(a) # Len(b) THEN (IF Len(a) < Len(b) THEN -1 ELSE 1)
    ELSE LET D == {i \in 1..Len(a) : a[i] # b[i]}
         IN  IF D = {} THEN 0
             ELSE LET k == CHOOSE i \in D : \A j \in D : j <= i
                  IN  IF a[k] < b[k] THEN -1 ELSE 1

RECURSIVE BMulDFrom(_, _, _, _)
BMulDFrom(a, d, i, c) ==
    IF i > Len(a) THEN (IF c = 0 THEN <<>> ELSE <<c>>)
    ELSE LET p == a[i] * d + c
         IN  <<p % Base>> \o BMulDFrom(a, d, i + 1, p \div Base)

\* a times a single limb d
BMulD(a, d) == IF d = 0 THEN <<>> ELSE BMulDFrom(a, d, 1, 0)

\* a times Base^k
BShiftLimbs(a, k) == IF a = <<>> THEN a ELSE [i \in 1..k |-> 0] \o a

RECURSIVE BMulFrom(_, _, _)
BMulFrom(a, b, j) ==
    IF j > Len(b) THEN <<>>
    ELSE BAdd(BMulD(a, b[j]), BShiftLimbs(BMulFrom(a, b, j + 1), 1))

BMul(a, b) == BMulFrom(a, b, 1)

\* a times 2^k
BShl(a, k) == BShiftLimbs(BMulD(a, 2^(k % 14)), k \div 14)

\* floor(a / 2^k)
BShr(a, k) ==
    LET q == k \div 14
        r == k % 14
        n == Len(a) - q
    IN  IF n <= 0 THEN <<>>
        ELSE BNorm([j \in 1..n |->
                 (a[j + q] \div 2^r) + (BLimb(a, j + q + 1) % 2^r) * 2^(14 - r)])

\* the low k bits of a are all zero
BLowZero(a, k) ==
    \A i \in 1..Len(a) :
        IF i * 14 <= k THEN a[i] = 0
        ELSE IF (i - 1) * 14 < k THEN a[i] % 2^(k - (i - 1) * 14) = 0
        ELSE TRUE

\* bit k of a (bit 0 is the lowest)
BBit(a, k) == (BLimb(a, k \div 14 + 1) \div 2^(k % 14)) % 2

LimbLen(x) == CHOOSE n \in 1..14 : 2^(n - 1) <= x /\ x < 2^n

BitLen(a) == IF a = <<>> THEN 0 ELSE (Len(a) - 1) * 14 + LimbLen(a[Len(a)])

\* the largest digit d <= est with b * d <= R
RECURSIVE BFix(_, _, _)
BFix(R, b, d) == IF BCmp(BMulD(b, d), R) > 0 THEN BFix(R, b, d - 1) ELSE d

\* floor(R / b) for b <= R < b * Base, the top limb of b being at least Base / 2
BDigit(R, b) ==
    BFix(R, b, Min(Base - 1,
             (BLimb(R, Len(b) + 1) * Base + BLimb(R, Len(b))) \div b[Len(b)]))

\* Long division in base Base, from the top limb of a down: at limb i the
\* remainder so far is R.  The result is <<quotient limbs, remainder>>.
RECURSIVE BDivLoop(_, _, _, _)
BDivPush(rest, d) == <<rest[1] \o <<d>>, rest[2]>>

BDivDigit(a, b, i, R1, d) ==
    BDivPush(BDivLoop(a, b, i - 1, BSub(R1, BMulD(b, d))), d)

BDivLimb(a, b, i, R1) ==
    IF BCmp(R1, b) < 0 THEN BDivPush(BDivLoop(a, b, i - 1, R1), 0)
    ELSE BDivDigit(a, b, i, R1, BDigit(R1, b))

BDivLoop(a, b, i, R) ==
    IF i = 0 THEN <<<<>>, R>> ELSE BDivLimb(a, b, i, BNorm(<<a[i]>> \o R))

BDivFrom(a, b) == BDivLoop(a, b, Len(a), <<>>)

\* <<floor(a / b), remainder>> for b > 0, the remainder scaled by a power of 2
BDivMod(a, b) ==
    BDivFrom(BShl(a, 14 - LimbLen(b[Len(b)])), BShl(b, 14 - LimbLen(b[Len(b)])))

(***************************************************************************)
(* binary64 numbers: (-1)^neg * m * 2^e with m of exactly 53 bits, or zero, *)
(* an infinity or NaN (no significand, told apart by e).  Subnormal numbers *)
(* are left out: no operation of the program comes near 2^-1022.            *)
(***************************************************************************)
Zero == [neg |-> FALSE, m |-> <<>>, e |-> 0]

Infinity(neg) == [neg |-> neg, m |-> <<>>, e |-> 1]

NaN == [neg |-> FALSE, m |-> <<>>, e |-> 2]

IsZero(x) == x.m = <<>> /\ x.e = 0

IsInfinite(x) == x.m = <<>> /\ x.e = 1

IsNaN(x) == x.m = <<>> /\ x.e = 2

\* m of 53 bits: a rounded magnitude of 2^1024 or more is an infinity
Finite(neg, m, e) ==
    IF e > 971 THEN Infinity(neg) ELSE [neg |-> neg, m |-> m, e |-> e]

\* q of 53 or 54 bits, the latter only as 2^53
Carried(neg, q, e) ==
    IF Len(q) = 4 /\ q[4] >= 2^12
    THEN Finite(neg, BShr(q, 1), e + 1)
    ELSE Finite(neg, q, e)

\* q of 53 bits, followed by the bit guard and then by bits that are all zero
\* iff ~rest: to nearest, ties to even
Nearest(neg, q, e, guard, rest) ==
    Carried(neg,
            IF guard /\ (rest \/ q[1] % 2 = 1) THEN BAdd(q, <<1>>) ELSE q, e)

RoundBits(neg, M, e, sticky, L) ==
    IF L <= 53
    THEN Finite(neg, BShl(M, 53 - L), e - (53 - L))
    ELSE Nearest(neg, BShr(M, L - 53), e + (L - 53),
                 BBit(M, L - 54) = 1, sticky \/ ~BLowZero(M, L - 54))

\* the double nearest to (-1)^neg * (M + t) * 2^e, ties to even, where
\* 0 < t < 1 if sticky and t = 0 otherwise
Round(neg, M, e, sticky) ==
    IF M = <<>> THEN Zero ELSE RoundBits(neg, M, e, sticky, BitLen(M))

\* an integer 0 <= n < 2^31 as a double
FromInt(n) == Round(FALSE, BFromInt(n), 0, FALSE)

FNeg(x) == IF IsZero(x) \/ IsNaN(x) THEN x ELSE [x EXCEPT !.neg = ~x.neg]

FAbs(x) == [x EXCEPT !.neg = FALSE]

\* -1, 0 or 1 as |x| < |y|, |x| = |y|, |x| > |y|
FCmpMag(x, y) ==
    IF IsZero(x) THEN (IF IsZero(y) THEN 0 ELSE -1)
    ELSE IF IsZero(y) THEN 1
    ELSE IF IsInfinite(x) THEN (IF IsInfinite(y) THEN 0 ELSE 1)
    ELSE IF IsInfinite(y) THEN -1
    ELSE IF x.e # y.e THEN (IF x.e < y.e THEN -1 ELSE 1)
    ELSE BCmp(x.m, y.m)

\* h + l for |h| >= |l| > 0: the exact sum or difference of the significands
\* at the exponent of l, rounded; l is below half an ulp of h when the
\* exponents differ by more than 64
AddOrdered(h, l) ==
    IF h.e - l.e > 64 THEN h
    ELSE Round(h.neg,
               IF h.neg = l.neg THEN BAdd(BShl(h.m, h.e - l.e), l.m)
               ELSE BSub(BShl(h.m, h.e - l.e), l.m),
               l.e, FALSE)

\* x + y where one of them is zero, an infinity or NaN
AddSpecial(x, y) ==
    IF IsNaN(x) \/ IsNaN(y) THEN NaN
    ELSE IF IsInfinite(x)
    THEN (IF IsInfinite(y) /\ x.neg # y.neg THEN NaN ELSE x)
    ELSE IF IsInfinite(y) \/ IsZero(x) THEN y
    ELSE x

\* x + y
FAdd(x, y) ==
    IF x.m = <<>> \/ y.m = <<>> THEN AddSpecial(x, y)
    ELSE AddOrdered(IF FCmpMag(x, y) >= 0 THEN x ELSE y,
                    IF FCmpMag(x, y) >= 0 THEN y ELSE x)

\* x - y
FSub(x, y) == FAdd(x, FNeg(y))

\* x * y where one of them is zero, an infinity or NaN
MulSpecial(x, y) ==
    IF IsNaN(x) \/ IsNaN(y) THEN NaN
    ELSE IF IsZero(x) \/ IsZero(y)
    THEN (IF IsInfinite(x) \/ IsInfinite(y) THEN NaN ELSE Zero)
    ELSE Infinity(x.neg # y.neg)

\* x * y
FMul(x, y) ==
    IF x.m = <<>> \/ y.m = <<>> THEN MulSpecial(x, y)
    ELSE Round(x.neg # y.neg, BMul(x.m, y.m), x.e + y.e, FALSE)

RoundQuotient(neg, qr, e) == Round(neg, BNorm(qr[1]), e, qr[2] # <<>>)

\* x / y where one of them is zero, an infinity or NaN
DivSpecial(x, y) ==
    IF IsNaN(x) \/ IsNaN(y) THEN NaN
    ELSE IF IsInfinite(x)
    THEN (IF IsInfinite(y) THEN NaN ELSE Infinity(x.neg # y.neg))
    ELSE IF IsInfinite(y) THEN Zero
    ELSE IF IsZero(y)
    THEN (IF IsZero(x) THEN NaN ELSE Infinity(x.neg # y.neg))
    ELSE Zero

\* x / y: the quotient of the significands to 56 or 57 bits, and whether a
\* remainder is left
FDiv(x, y) ==
    IF x.m = <<>> \/ y.m = <<>> THEN DivSpecial(x, y)
    ELSE RoundQuotient(x.neg # y.neg, BDivMod(BShl(x.m, 56), y.m),
                       x.e - y.e - 56)

\* x < y
FLess(x, y) ==
    IF IsNaN(x) \/ IsNaN(y) THEN FALSE
    ELSE IF x.neg # y.neg THEN x.neg
    ELSE IF x.neg THEN FCmpMag(x, y) > 0 ELSE FCmpMag(x, y) < 0

(***************************************************************************)
(* CONFIG (lines 2-11 and 478-484) and the values the controls can take    *)
(***************************************************************************)
NUM_AGENTS == 10

INITIAL_VALUE == 100

MAX_HISTORY == 50

\* a decimal literal n/d (n, d integers) denotes the double nearest to it,
\* which is what the correctly rounded quotient of the two integers is
Decimal(n, d) == FDiv(FromInt(n), FromInt(d))

GROWTH_RATE == Decimal(8, 100)

DEFAULT_REDISTRIBUTION_RATE == Decimal(15, 100)

DEFAULT_BREAD_FRACTION == Decimal(1, 1000)

DEFAULT_SPEED == 500

Agents == 0..(NUM_AGENTS - 1)

Others == Agents \ {0}

\* positions of the redistribution slider (per cent, an integer)
RedistributionInputs == {0, 15}

\* positions of the bread-fraction slider, as decimal strings n/d
BreadFractionInputs == {<<5, 10>>, <<1, 1>>}

\* positions of the speed slider (milliseconds)
SpeedInputs == {100, 500}

\* handles the browser may give to an interval: any positive integer that
\* identifies no live timer
TimerIds == {1, 2}

\* the step index up to which the model follows the simulation
MaxStep == 61

\* the same where every control is in play
MaxShortStep == 2

VARIABLES
    variant,      \* 1: bread affordability page, 2: Gini page
    simulation,   \* the object `simulation`
    CONFIG,       \* the fields of CONFIG the controls change
    timers,       \* the browser's live intervals, [id, delay]
    lastHandler   \* the event handler that ran last, with what it called

vars == <<variant, simulation, CONFIG, timers, lastHandler>>

\* What a handler works on: the object `simulation` together with the frame of
\* the handler, which holds the step index the handler found, the locals of
\* its last stepSimulation call (none: <<>>) and the step indices its updateUI
\* calls rendered.
Enter(sim) == sim @@ [entry |-> sim.state, locals |-> <<>>, rendered |-> <<>>]

\* the object `simulation` a handler leaves
SimOf(r) == [f \in DOMAIN r \ {"entry", "locals", "rendered"} |-> r[f]]

\* the record of the handler `name` that ended with frame r
Handled(name, r) ==
    [name |-> name, entry |-> r.entry, locals |-> r.locals,
     rendered |-> r.rendered]

(***************************************************************************)
(* Array.prototype.reduce((sum, x) => sum + x, 0) over f[lo], ..., f[hi]   *)
(***************************************************************************)
\* e, with x evaluated first: a statement's value is computed where the
\* statement stands, and TLC would compute an operator's argument only where
\* the argument is first used
Having(x, e) == IF x = x THEN e ELSE e

RECURSIVE ReduceSum(_, _, _)
ReduceSum(f, lo, hi) ==
    IF hi < lo THEN Zero ELSE FAdd(ReduceSum(f, lo, hi - 1), f[hi])

\* the function on D that maps i to the image of f[i], built entry by entry
RECURSIVE Collect(_, _, _)
Collect(image, f, D) ==
    IF D = {} THEN <<>>
    ELSE LET i == CHOOSE j \in D : TRUE
         IN  (i :> (CHOOSE p \in image : p[1] = f[i])[2])
             @@ Collect(image, f, D \ {i})

\* the elements of the array f
Range(f) == {f[i] : i \in DOMAIN f}

\* the array of the images of f's elements, image holding <<x, image of x>>
\* for each distinct element x: what forEach leaves, each distinct element's
\* image computed once
Map(image, f) == Collect(image, f, DOMAIN f)

NominalValues(agents) == [i \in Agents |-> agents[i].nominalValue]

Total(agents) == ReduceSum(NominalValues(agents), 0, NUM_AGENTS - 1)

\* the inner loop of calculateGini (lines 739-741): sumDiff after the pairs
\* (i, j), (i, j + 1), ...
RECURSIVE SumDiffRow(_, _, _, _)
SumDiffRow(values, i, j, sumDiff) ==
    IF j = NUM_AGENTS THEN sumDiff
    ELSE Having(sumDiff,
             SumDiffRow(values, i, j + 1,
                 FAdd(sumDiff, FAbs(FSub(values[i], values[j])))))

\* the outer loop (lines 738-742): sumDiff after the rows i, i + 1, ...
RECURSIVE SumDiffFrom(_, _, _)
SumDiffFrom(values, i, sumDiff) ==
    IF i = NUM_AGENTS THEN sumDiff
    ELSE Having(sumDiff,
             SumDiffFrom(values, i + 1, SumDiffRow(values, i, 0, sumDiff)))

\* sumDiff / (2 * n * n * mean), the product taken from the left
GiniOf(sumDiff, n, mean) ==
    FDiv(sumDiff, FMul(FromInt(2 * n * n), mean))

\* calculateGini() (lines 732-745)
calculateGini(agents) ==
    GiniOf(SumDiffFrom(NominalValues(agents), 0, Zero), NUM_AGENTS,
           FDiv(Total(agents), FromInt(NUM_AGENTS)))

\* null, which is not a number
Null == [neg |-> FALSE, m |-> <<>>, e |-> 3]

\* JSON.parse of the JSON text of the number x: a finite number is written
\* with the digits that read back as the same double, Infinity and NaN are
\* written as null
JsonNumber(x) == IF IsInfinite(x) \/ IsNaN(x) THEN Null ELSE x

\* JSON.parse(JSON.stringify(agents)): a structurally independent copy of
\* what JSON text keeps
DeepCopy(agents) ==
    [i \in Agents |-> [f \in DOMAIN agents[i] |-> JsonNumber(agents[i][f])]]

\* calculateBreadAffordability, lines 78-88: the agents with breadAffordable
\* and percentage recomputed
calculateBreadAffordability(agents, cfg) ==
    LET Recomputed(total, breadPrice) ==
            LET Recompute(agent) ==
                    [agent EXCEPT
                        !.breadAffordable = FDiv(agent.nominalValue, breadPrice),
                        !.percentage = FMul(FDiv(agent.nominalValue, total),
                                            FromInt(100))]
            IN  Having(breadPrice,
                    Map({<<x, Recompute(x)>> : x \in Range(agents)}, agents))
        Priced(total) == Recomputed(total, FMul(total, cfg.BREAD_FRACTION))
    IN  Priced(Total(agents))

\* saveToHistory shifting as soon as the buffer is full
saveToHistoryAtLimit(sim) ==
    LET Limited(pushed) ==
            IF Len(pushed) >= MAX_HISTORY THEN Tail(pushed) ELSE pushed
        snapshot == [i \in Agents |->
                        [state |-> sim.state, name |-> i + 1,
                         breadAffordable |-> sim.agents[i].breadAffordable]]
    IN  [sim EXCEPT !.history = Limited(Append(sim.history, snapshot))]

\* saveToHistory with pop() for shift(): the newest snapshot goes
saveToHistoryPopping(sim) ==
    LET Limited(pushed) ==
            IF Len(pushed) > MAX_HISTORY
            THEN SubSeq(pushed, 1, MAX_HISTORY) ELSE pushed
        snapshot == [i \in Agents |->
                        [state |-> sim.state, name |-> i + 1,
                         breadAffordable |-> sim.agents[i].breadAffordable]]
    IN  [sim EXCEPT !.history = Limited(Append(sim.history, snapshot))]

\* saveToHistory numbering a snapshot by the length of the buffer
saveToHistoryCounting(sim) ==
    LET Limited(pushed) ==
            IF Len(pushed) > MAX_HISTORY THEN Tail(pushed) ELSE pushed
        snapshot == [i \in Agents |->
                        [state |-> Len(sim.history), name |-> i + 1,
                         breadAffordable |-> sim.agents[i].breadAffordable]]
    IN  [sim EXCEPT !.history = Limited(Append(sim.history, snapshot))]

\* saveToHistory, lines 91-104
saveToHistory(sim) ==
    LET Limited(pushed) ==
            IF Len(pushed) > MAX_HISTORY THEN Tail(pushed) ELSE pushed
        snapshot == [i \in Agents |->
                        [state |-> sim.state, name |-> i + 1,
                         breadAffordable |-> sim.agents[i].breadAffordable]]
    IN  [sim EXCEPT !.history = Limited(Append(sim.history, snapshot))]

\* updateUI presenting the latest state in place of what it presented before
updateUILatestOnly(sim) == [sim EXCEPT !.rendered = <<sim.state>>]

\* updateUI, lines 148-153 and 577-582: renders the current state
updateUI(sim) == [sim EXCEPT !.rendered = Append(@, sim.state)]

\* simulation.previousAgents = JSON.parse(JSON.stringify(simulation.agents))
savePrevious(sim) == [sim EXCEPT !.previousAgents = DeepCopy(sim.agents)]

\* initSimulation of variant 1 without line 48, simulation.history = []
initSimulationKeepingHistory(sim, cfg) ==
    LET fresh == [i \in Agents |->
                     [nominalValue |-> FromInt(INITIAL_VALUE),
                      percentage |-> FromInt(10),
                      breadAffordable |-> Zero]]
        Based(agents) ==
            Having(agents, [sim EXCEPT
                !.state = 0,
                !.agents = agents,
                !.baseBreadPrice = FMul(Total(agents), cfg.BREAD_FRACTION),
                !.baseBreadsAffordable =
                    FDiv(ReduceSum([i \in Agents |-> agents[i].breadAffordable],
                                   1, NUM_AGENTS - 1),
                         FromInt(9))])
    IN  updateUI(savePrevious(saveToHistory(
            Based(calculateBreadAffordability(fresh, cfg)))))

\* initSimulation of variant 1, lines 45-75
initSimulation1(sim, cfg) ==
    LET fresh == [i \in Agents |->
                     [nominalValue |-> FromInt(INITIAL_VALUE),
                      percentage |-> FromInt(10),
                      breadAffordable |-> Zero]]
        Based(agents) ==
            Having(agents, [sim EXCEPT
                !.state = 0,
                !.agents = agents,
                !.history = <<>>,
                !.baseBreadPrice = FMul(Total(agents), cfg.BREAD_FRACTION),
                !.baseBreadsAffordable =
                    FDiv(ReduceSum([i \in Agents |-> agents[i].breadAffordable],
                                   1, NUM_AGENTS - 1),
                         FromInt(9))])
    IN  updateUI(savePrevious(saveToHistory(
            Based(calculateBreadAffordability(fresh, cfg)))))

\* initSimulation of variant 2, lines 515-531
initSimulation2(sim, cfg) ==
    LET fresh == [i \in Agents |->
                     [nominalValue |-> FromInt(INITIAL_VALUE),
                      percentage |-> FromInt(10)]]
    IN  updateUI(savePrevious([sim EXCEPT !.state = 0, !.agents = fresh]))

initSimulation(v, sim, cfg) ==
    IF v = 1 THEN initSimulation1(sim, cfg) ELSE initSimulation2(sim, cfg)

\* agents[0].nominalValue *= (1 + CONFIG.GROWTH_RATE), lines 115 and 541
Grown(a1PreviousValue) == FMul(a1PreviousValue, FAdd(FromInt(1), GROWTH_RATE))

\* the same at the rate CONFIG is created with, whatever the slider says
RedistributedAtDefault(a1Growth, cfg) ==
    FMul(a1Growth, DEFAULT_REDISTRIBUTION_RATE)

\* a1Growth * CONFIG.REDISTRIBUTION_RATE, lines 121 and 548
Redistributed(a1Growth, cfg) == FMul(a1Growth, cfg.REDISTRIBUTION_RATE)

\* the same shared among all the agents, agent 0 counted in
PerAgentOfAll(redistributedWealth) ==
    FDiv(redistributedWealth, FromInt(NUM_AGENTS))

\* redistributedWealth / (CONFIG.NUM_AGENTS - 1), lines 124 and 551
PerAgent(redistributedWealth) ==
    FDiv(redistributedWealth, FromInt(NUM_AGENTS - 1))

\* the accumulation and redistribution of one step, lines 111-129 and
\* 538-557: the agents after it and the locals of the call
Redistribute(agents, cfg) ==
    LET Shared(a1PreviousValue, grown, a1Growth, redistributedWealth,
               wealthPerAgent) ==
            LET Receive(agent) ==
                    [agent EXCEPT !.nominalValue = FAdd(@, wealthPerAgent)]
                others == [i \in Others |-> agents[i]]
            IN  Having(wealthPerAgent,
                    [agents |-> (0 :> [agents[0] EXCEPT !.nominalValue = grown])
                                @@ Map({<<x, Receive(x)>> : x \in Range(others)},
                                       others),
                     locals |->
                        [a1PreviousValue |-> a1PreviousValue,
                         a1Growth |-> a1Growth,
                         redistributedWealth |-> redistributedWealth,
                         wealthPerAgent |-> wealthPerAgent]])
        Split(a1PreviousValue, grown, a1Growth, redistributedWealth) ==
            Shared(a1PreviousValue, grown, a1Growth, redistributedWealth,
                   PerAgent(redistributedWealth))
        Taken(a1PreviousValue, grown, a1Growth) ==
            Split(a1PreviousValue, grown, a1Growth,
                  Redistributed(a1Growth, cfg))
        Accumulated(a1PreviousValue, grown) ==
            Taken(a1PreviousValue, grown, FSub(grown, a1PreviousValue))
    IN  Accumulated(agents[0].nominalValue, Grown(agents[0].nominalValue))

\* stepSimulation of variant 1, lines 107-138
stepSimulation1(sim, cfg) ==
    LET Stepped(r) ==
            Having(r, [sim EXCEPT
                          !.previousAgents = DeepCopy(sim.agents),
                          !.state = @ + 1,
                          !.agents = calculateBreadAffordability(r.agents, cfg),
                          !.locals = <<r.locals>>])
    IN  updateUI(saveToHistory(Stepped(Redistribute(sim.agents, cfg))))

\* stepSimulation of variant 2, lines 534-567
stepSimulation2(sim, cfg) ==
    LET Shares(agents, total) ==
            LET Percentage(agent) ==
                    [agent EXCEPT !.percentage =
                        FMul(FDiv(agent.nominalValue, total), FromInt(100))]
            IN  Having(total,
                    Map({<<x, Percentage(x)>> : x \in Range(agents)}, agents))
        Stepped(r) ==
            Having(r, [sim EXCEPT
                          !.previousAgents = DeepCopy(sim.agents),
                          !.state = @ + 1,
                          !.agents = Shares(r.agents, Total(r.agents)),
                          !.locals = <<r.locals>>])
    IN  updateUI(Stepped(Redistribute(sim.agents, cfg)))

stepSimulation(v, sim, cfg) ==
    IF v = 1 THEN stepSimulation1(sim, cfg) ELSE stepSimulation2(sim, cfg)

\* stepMultiple whose loop body runs once
stepMultipleOnce(v, sim, cfg, n) ==
    IF n = 0 THEN sim ELSE stepSimulation(v, sim, cfg)

\* stepMultiple, lines 141-145 and 570-574
RECURSIVE stepMultiple(_, _, _, _)
stepMultiple(v, sim, cfg, n) ==
    IF n = 0 THEN sim
    ELSE Having(sim, stepMultiple(v, stepSimulation(v, sim, cfg), cfg, n - 1))

(***************************************************************************)
(* The browser's timers                                                    *)
(***************************************************************************)
LiveIds == {t.id : t \in timers}

\* clearInterval never called
clearIntervalMissing(live, handle) == live

\* clearInterval(handle)
clearInterval(live, handle) == {t \in live : t.id # handle}

(***************************************************************************)
(* The state once the page has loaded: the object literal of lines 33-42   *)
(* (506-512), then the load handler of lines 468-470 (826-828)             *)
(***************************************************************************)
Literal(v) ==
    IF v = 1
    THEN [state |-> 0, agents |-> <<>>, previousAgents |-> <<>>,
          history |-> <<>>, autoPlayInterval |-> 0,
          autoPlaySpeed |-> DEFAULT_SPEED,
          baseBreadPrice |-> Zero, baseBreadsAffordable |-> Zero]
    ELSE [state |-> 0, agents |-> <<>>, previousAgents |-> <<>>,
          autoPlayInterval |-> 0, autoPlaySpeed |-> DEFAULT_SPEED]

InitialConfig(v) ==
    IF v = 1
    THEN [REDISTRIBUTION_RATE |-> DEFAULT_REDISTRIBUTION_RATE,
          BREAD_FRACTION |-> DEFAULT_BREAD_FRACTION]
    ELSE [REDISTRIBUTION_RATE |-> DEFAULT_REDISTRIBUTION_RATE]

Loaded(v, r) ==
    /\ variant = v
    /\ CONFIG = InitialConfig(v)
    /\ simulation = SimOf(r)
    /\ timers = {}
    /\ lastHandler = Handled("load", r)

InitOf(v) == Loaded(v, initSimulation(v, Enter(Literal(v)), InitialConfig(v)))

Init == \E v \in {1, 2} : InitOf(v)

(***************************************************************************)
(* The event handlers, lines 403-465 and 772-823                           *)
(***************************************************************************)
\* a handler ends: what it leaves of `simulation`, and its record
Leave(name, r) ==
    /\ simulation' = SimOf(r)
    /\ lastHandler' = Handled(name, r)

\* stepBtn click
Step ==
    /\ simulation.state < MaxStep
    /\ Leave("step", stepSimulation(variant, Enter(simulation), CONFIG))
    /\ UNCHANGED <<variant, CONFIG, timers>>

\* step10Btn click
Step10 ==
    /\ simulation.state + 10 <= MaxStep
    /\ Leave("step10", stepMultiple(variant, Enter(simulation), CONFIG, 10))
    /\ UNCHANGED <<variant, CONFIG, timers>>

\* a live interval fires: the callback of lines 426-428, 440-442
Tick ==
    /\ simulation.state < MaxStep
    /\ timers # {}
    /\ Leave("tick", stepSimulation(variant, Enter(simulation), CONFIG))
    /\ UNCHANGED <<variant, CONFIG, timers>>

\* resetBtn click
Reset ==
    /\ timers' = IF simulation.autoPlayInterval # 0
                  THEN clearInterval(timers, simulation.autoPlayInterval)
                  ELSE timers
    /\ Leave("reset",
             initSimulation(variant,
                 Enter([simulation EXCEPT !.autoPlayInterval = 0]), CONFIG))
    /\ UNCHANGED <<variant, CONFIG>>

\* autoPlayBtn click
AutoPlay ==
    /\ IF simulation.autoPlayInterval # 0
       THEN /\ timers' = clearInterval(timers, simulation.autoPlayInterval)
            /\ simulation' = [simulation EXCEPT !.autoPlayInterval = 0]
       ELSE \E id \in TimerIds \ LiveIds :
            /\ timers' = timers \cup
                   {[id |-> id, delay |-> simulation.autoPlaySpeed]}
            /\ simulation' = [simulation EXCEPT !.autoPlayInterval = id]
    /\ lastHandler' = Handled("autoPlay", Enter(simulation))
    /\ UNCHANGED <<variant, CONFIG>>

\* speedSlider input
SpeedInput ==
    \E speed \in SpeedInputs :
        LET s1 == [simulation EXCEPT !.autoPlaySpeed = speed]
        IN  /\ IF s1.autoPlayInterval # 0
               THEN LET cleared == clearInterval(timers, s1.autoPlayInterval)
                    IN  \E id \in TimerIds \ {t.id : t \in cleared} :
                        /\ timers' = cleared \cup
                               {[id |-> id, delay |-> s1.autoPlaySpeed]}
                        /\ simulation' = [s1 EXCEPT !.autoPlayInterval = id]
               ELSE /\ timers' = timers
                    /\ simulation' = s1
            /\ lastHandler' = Handled("speed", Enter(simulation))
            /\ UNCHANGED <<variant, CONFIG>>

\* redistributionSlider input
RedistributionInput ==
    \E redistribution \in RedistributionInputs :
        /\ CONFIG' = [CONFIG EXCEPT !.REDISTRIBUTION_RATE =
                         FDiv(FromInt(redistribution), FromInt(100))]
        /\ lastHandler' = Handled("redistribution", Enter(simulation))
        /\ UNCHANGED <<variant, simulation, timers>>

\* the same without the test of line 459
RecalculatedAlways(sim, cfg) ==
    updateUI([sim EXCEPT !.agents =
                 calculateBreadAffordability(sim.agents, cfg)])

\* the handler without lines 459-462
RecalculatedNever(sim, cfg) == sim

\* lines 459-462: the metrics follow the new fraction once the simulation
\* has advanced
Recalculated(sim, cfg) ==
    IF sim.state > 0
    THEN updateUI([sim EXCEPT !.agents =
                      calculateBreadAffordability(sim.agents, cfg)])
    ELSE sim

\* breadFractionSlider input (variant 1 only)
BreadFractionInput ==
    /\ variant = 1
    /\ \E value \in BreadFractionInputs :
        /\ CONFIG' = [CONFIG EXCEPT !.BREAD_FRACTION =
                         FDiv(Decimal(value[1], value[2]), FromInt(1000))]
        /\ Leave("breadFraction", Recalculated(Enter(simulation), CONFIG'))
    /\ UNCHANGED <<variant, timers>>

Next ==
    \/ Step
    \/ Step10
    \/ Tick
    \/ Reset
    \/ AutoPlay
    \/ SpeedInput
    \/ RedistributionInput
    \/ BreadFractionInput

Spec == Init /\ [][Next]_vars

(***************************************************************************)
(* Parts of Spec small enough to explore in full.  Each keeps the handlers *)
(* unchanged and leaves some of them out.                                  *)
(***************************************************************************)
Short == simulation'.state <= MaxShortStep

\* the history buffer of variant 1 has filled
Full == simulation.state >= MAX_HISTORY

\* long runs, in which the history buffer fills and overflows; auto-play
\* joins once it is full, the sliders move at the moment it is, and reset
\* starts over while the sliders are where they were at load
NextLong ==
    \/ Step
    \/ Step10
    \/ Tick /\ Full
    \/ AutoPlay /\ Full
    \/ Reset /\ CONFIG = InitialConfig(variant)
    \/ RedistributionInput /\ simulation.state = MAX_HISTORY
    \/ BreadFractionInput /\ simulation.state = MAX_HISTORY

SpecLong == Init /\ [][NextLong]_vars

\* short runs, the sliders moved at any point
NextSliders ==
    \/ Step /\ Short
    \/ Reset
    \/ RedistributionInput
    \/ BreadFractionInput

SpecSliders == Init /\ [][NextSliders]_vars

\* short runs, auto-play in any interleaving
NextAutoPlay ==
    \/ Step /\ Short
    \/ Tick /\ Short
    \/ Reset
    \/ AutoPlay
    \/ SpeedInput

SpecAutoPlay == Init /\ [][NextAutoPlay]_vars

\* the double 100 * 1.08^9126 as the steps compute it: agent 0 after 9126
\* steps
AccumulatorAtStep9126 ==
    [neg |-> FALSE, m |-> <<4776, 962, 10541, 1931>>, e |-> 967]

\* positive nominal values: small ones, the initial one, and ones near the
\* top of the range of the doubles (2^1023)
GiniInputs ==
    {FromInt(1), FromInt(INITIAL_VALUE), AccumulatorAtStep9126,
     [neg |-> FALSE, m |-> <<0, 0, 0, 1024>>, e |-> 971]}

\* the Gini page holding ten positive values: agent 0 one, agents 1..8
\* another, agent 9 a third (calculateGini reads nominalValue only)
InitGini ==
    /\ variant = 2
    /\ CONFIG = InitialConfig(2)
    /\ timers = {}
    /\ lastHandler = Handled("load", Enter(Literal(2)))
    /\ \E a, b, c \in GiniInputs :
           simulation =
               [Literal(2) EXCEPT
                   !.agents = [i \in Agents |->
                       [nominalValue |-> IF i = 0 THEN a
                                         ELSE IF i < NUM_AGENTS - 1 THEN b
                                         ELSE c,
                        percentage |-> Zero]]]

\* updateMetrics() of variant 2 (lines 585-601) as far as its local gini
UpdateMetrics ==
    /\ variant = 2
    /\ lastHandler.name # "updateMetrics"
    /\ lastHandler' =
           [name |-> "updateMetrics", entry |-> simulation.state,
            locals |-> <<[gini |-> calculateGini(simulation.agents)]>>,
            rendered |-> <<>>]
    /\ UNCHANGED <<variant, simulation, CONFIG, timers>>

NextGini == UpdateMetrics

\* the step index up to which the model follows a run of the Gini page that
\* is left going
MaxRun == 9200

\* stepBtn click in such a run
StepOn ==
    /\ variant = 2
    /\ simulation.state < MaxRun
    /\ Leave("step", stepSimulation(variant, Enter(simulation), CONFIG))
    /\ UNCHANGED <<variant, CONFIG, timers>>

\* runs of the Gini page long enough for the values to leave the range of
\* the doubles, at the redistribution rate of the page as loaded or at 0,
\* set before the first step
NextRun ==
    \/ StepOn
    \/ Reset /\ variant = 2
    \/ /\ RedistributionInput
       /\ lastHandler.name = "load"
       /\ IsZero(CONFIG'.REDISTRIBUTION_RATE)

SpecRun == InitOf(2) /\ [][NextRun]_vars

SpecGini == InitGini /\ [][NextGini]_vars

(***************************************************************************)
(* Properties                                                              *)
(***************************************************************************)
\* what rounding may account for in a comparison of two sums
Tolerance == Decimal(1, 1000000)

Near(x, y) == FLess(FAbs(FSub(x, y)), Tolerance)

\* the last k elements of s
LastOf(s, k) == SubSeq(s, Len(s) - k + 1, Len(s))

\* agent 0's growthAmount of the step that just ran: previousValue * growthRate
GrowthAmount == FMul(simulation.previousAgents[0].nominalValue, GROWTH_RATE)

\* C1: after every step the sum of the agents' nominalValue is the sum before
\* the step plus agent 0's growthAmount, redistribution creating no wealth
C1_TotalGrowsByGrowthAmount ==
    lastHandler.name = "step" =>
        Near(Total(simulation.agents),
             FAdd(Total(simulation.previousAgents), GrowthAmount))

\* C2: after a step agent 0 has kept the (1 - redistributionRate) fraction of
\* its growth, and the rest of the growth is split evenly among the other nine
C2_AccumulatorKeepsItsFraction ==
    lastHandler.name = "step" =>
        /\ Near(simulation.agents[0].nominalValue,
                FAdd(simulation.previousAgents[0].nominalValue,
                     FMul(GrowthAmount,
                          FSub(FromInt(1), CONFIG.REDISTRIBUTION_RATE))))
        /\ \A i \in Others :
            Near(simulation.agents[i].nominalValue,
                 FAdd(simulation.previousAgents[i].nominalValue,
                      FDiv(FMul(GrowthAmount, CONFIG.REDISTRIBUTION_RATE),
                           FromInt(NUM_AGENTS - 1))))

\* C3, as the code has it: 60 steps after initialization the oldest snapshot
\* the history buffer of variant 1 retains carries step index 11
C3_OldestAfterSixtyStepsIsEleven ==
    (variant = 1 /\ simulation.state = 60) =>
        \A i \in Agents : simulation.history[1][i].state = 11

\* C3, as stated: 60 steps after initialization the oldest retained snapshot
\* carries step index 10
C3_OldestAfterSixtyStepsIsTen ==
    (variant = 1 /\ simulation.state = 60) =>
        \A i \in Agents : simulation.history[1][i].state = 10

C3_SixtyStepsTaken ==
    /\ variant = 1
    /\ simulation.state = 60
    /\ Len(simulation.history) = MAX_HISTORY

\* a transition that pushes k snapshots appends them in order and drops from
\* the front what exceeds MAX_HISTORY; a reset leaves the snapshot of its own
\* initialization; every other transition leaves the buffer as it is
C4_Fifo ==
    LET k == simulation'.state - simulation.state
        pushed == simulation.history \o LastOf(simulation'.history, k)
    IN  IF lastHandler'.name = "reset" THEN Len(simulation'.history) = 1
        ELSE IF k <= 0 THEN simulation'.history = simulation.history
        ELSE /\ Len(simulation'.history) = Min(MAX_HISTORY, Len(pushed))
             /\ simulation'.history = LastOf(pushed, Len(simulation'.history))
             /\ \A j \in 1..k :
                    LastOf(simulation'.history, k)[j][0].state
                        = simulation.state + j

\* C4: in variant 1 the history buffer never holds more than 50 snapshots,
\* and a push that would exceed 50 evicts the oldest snapshot and only that
\* one, the others keeping their order
C4_HistoryIsBoundedFifo ==
    /\ [](variant = 1 => Len(simulation.history) <= MAX_HISTORY)
    /\ [][variant = 1 => C4_Fifo]_vars

C4_EvictedAfterSliderChange ==
    /\ variant = 1
    /\ simulation.state > MAX_HISTORY + 1
    /\ Len(simulation.history) = MAX_HISTORY
    /\ CONFIG # InitialConfig(1)

\* a reset that found the simulation advanced has just run
C5_ResetAfterSteps == lastHandler.name = "reset" /\ lastHandler.entry > 0

C5_Restored ==
    /\ simulation.state = 0
    /\ \A i \in Agents :
        simulation.agents[i].nominalValue = FromInt(INITIAL_VALUE)

\* C5, as the code has it: a reset after N > 0 steps restores step index 0 and
\* every agent's nominalValue to the initial value, and leaves in the history
\* buffer of variant 1 exactly one snapshot, that of step 0
C5_ResetLeavesInitialSnapshot ==
    C5_ResetAfterSteps =>
        /\ C5_Restored
        /\ variant = 1 =>
            /\ Len(simulation.history) = 1
            /\ \A i \in Agents : simulation.history[1][i].state = 0

\* C5, as stated: a reset after N > 0 steps restores step index 0 and every
\* agent's nominalValue, and leaves the history buffer empty
C5_ResetEmptiesHistory ==
    C5_ResetAfterSteps =>
        /\ C5_Restored
        /\ variant = 1 => simulation.history = <<>>

C5_ResetAfterSlidersMoved ==
    /\ C5_ResetAfterSteps
    /\ variant = 1
    /\ lastHandler.entry = MaxShortStep
    /\ CONFIG.REDISTRIBUTION_RATE # DEFAULT_REDISTRIBUTION_RATE
    /\ CONFIG.BREAD_FRACTION # DEFAULT_BREAD_FRACTION

\* C6: at most one interval is live, simulation.autoPlayInterval is non-null
\* exactly when one is, the live one is the one it names and runs at
\* autoPlaySpeed, and a tick only ever finds auto-play started
C6_OneTimerNamedByHandle ==
    /\ [](/\ Cardinality(timers) <= 1
          /\ simulation.autoPlayInterval # 0 <=> timers # {}
          /\ \A t \in timers :
                /\ t.id = simulation.autoPlayInterval
                /\ t.delay = simulation.autoPlaySpeed)
    /\ [][lastHandler'.name = "tick" => simulation.autoPlayInterval # 0]_vars

C6_SpeedChangedWhileActive ==
    /\ lastHandler.name = "speed"
    /\ simulation.state > 0
    /\ \E t \in timers :
        /\ t.id = simulation.autoPlayInterval
        /\ t.delay # DEFAULT_SPEED

\* n calls of stepSimulation, one after the other
RECURSIVE Steps(_, _, _, _)
StepAfter(v, done, cfg) == Having(done, stepSimulation(v, done, cfg))

Steps(v, sim, cfg, n) ==
    IF n = 0 THEN sim ELSE StepAfter(v, Steps(v, sim, cfg, n - 1), cfg)

C7_SameAs(single) ==
    /\ simulation'.state = simulation.state + 10
    /\ simulation'.agents = single.agents
    /\ simulation' = SimOf(single)
    /\ variant = 1 =>
        \A j \in 1..10 :
            LastOf(simulation'.history, 10)[j][0].state = simulation.state + j

\* C7: stepMultiple(10) advances the step index by exactly 10, leaves the
\* agents (and everything else of the simulation) as 10 calls of
\* stepSimulation do, and in variant 1 pushes a snapshot for every one of the
\* 10 steps
C7_StepMultipleIsSequentialSteps ==
    [][lastHandler'.name = "step10" =>
          C7_SameAs(Steps(variant, Enter(simulation), CONFIG, 10))]_vars

C7_BatchOverflowedHistory ==
    /\ lastHandler.name = "step10"
    /\ variant = 1
    /\ lastHandler.entry < MAX_HISTORY
    /\ simulation.state > MAX_HISTORY

\* C8: with the redistribution rate at 0 a step leaves every non-accumulator
\* agent's nominalValue exactly as it was and multiplies agent 0's by
\* (1 + growthRate)
C8_NoRedistributionLeavesOthersUnchanged ==
    [][(lastHandler'.name = "step" /\ IsZero(CONFIG.REDISTRIBUTION_RATE)) =>
          /\ \A i \in Others :
                simulation'.agents[i].nominalValue
                    = simulation.agents[i].nominalValue
          /\ simulation'.agents[0].nominalValue
                = FMul(simulation.agents[0].nominalValue,
                       FAdd(FromInt(1), GROWTH_RATE))]_vars

C8_SteppedAtRateZeroAfterReceiving ==
    /\ lastHandler.name = "step"
    /\ IsZero(CONFIG.REDISTRIBUTION_RATE)
    /\ simulation.state = MaxShortStep
    /\ \A i \in Others :
        /\ simulation.agents[i].nominalValue # FromInt(INITIAL_VALUE)
        /\ simulation.agents[i].nominalValue
              = simulation.previousAgents[i].nominalValue

C9_Frame ==
    /\ CONFIG'.REDISTRIBUTION_RATE = CONFIG.REDISTRIBUTION_RATE
    /\ simulation'.state = simulation.state
    /\ simulation'.previousAgents = simulation.previousAgents
    /\ simulation'.baseBreadPrice = simulation.baseBreadPrice
    /\ simulation'.history = simulation.history
    /\ \A i \in Agents :
        simulation'.agents[i].nominalValue = simulation.agents[i].nominalValue

C9_Recomputed(total, fraction) ==
    \A i \in Agents :
        /\ simulation'.agents[i].breadAffordable
              = FDiv(simulation.agents[i].nominalValue, FMul(total, fraction))
        /\ simulation'.agents[i].percentage
              = FMul(FDiv(simulation.agents[i].nominalValue, total),
                     FromInt(100))

\* C9: the bread-fraction control sets breadFraction; past step 0 it
\* recomputes every agent's breadAffordable and percentage with the new
\* fraction and leaves the step index, the nominal values, the previous-agents
\* snapshot, the base bread price and the history buffer as they were; at
\* step 0 it changes nothing but breadFraction
C9_BreadFractionRecomputesOnly ==
    [][lastHandler'.name = "breadFraction" =>
          /\ \E value \in BreadFractionInputs :
                CONFIG'.BREAD_FRACTION
                    = FDiv(Decimal(value[1], value[2]), FromInt(1000))
          /\ C9_Frame
          /\ IF simulation.state > 0
             THEN C9_Recomputed(Total(simulation.agents), CONFIG'.BREAD_FRACTION)
             ELSE simulation' = simulation]_vars

C9_RecomputedPastStepZero ==
    /\ lastHandler.name = "breadFraction"
    /\ simulation.state > 0
    /\ CONFIG.BREAD_FRACTION # DEFAULT_BREAD_FRACTION
    /\ \A i \in Agents :
        simulation.agents[i].breadAffordable
            # simulation.history[Len(simulation.history)][i].breadAffordable

\* the first step from the initial state has just run at the rates of CONFIG
C10_FirstStepAtDefaults ==
    /\ lastHandler.name = "step"
    /\ simulation.state = 1
    /\ CONFIG.REDISTRIBUTION_RATE = DEFAULT_REDISTRIBUTION_RATE

AllEqual(agents) ==
    \A i \in Agents : agents[i].nominalValue = agents[0].nominalValue

InUnitInterval(x) == ~IsNaN(x) /\ ~FLess(x, Zero) /\ FLess(x, FromInt(1))

\* C11: for any ten positive values the Gini index that calculateGini
\* returns is at least 0 and below 1, and it is 0 when the ten values are
\* equal
C11_GiniInUnitInterval ==
    lastHandler.name = "updateMetrics" =>
        /\ InUnitInterval(lastHandler.locals[1].gini)
        /\ AllEqual(simulation.agents) => IsZero(lastHandler.locals[1].gini)

(***************************************************************************)
(* C12                                                                     *)
(***************************************************************************)
\* the deltas updateTable displays (lines 192-193, 608-610)
Deltas(sim) ==
    [i \in Agents |->
        [f \in DOMAIN sim.agents[i] |->
            FSub(sim.agents[i][f], sim.previousAgents[i][f])]]

\* C12: a step advances the step index by exactly 1 and leaves previousAgents
\* equal to the agents as they were just before it, whatever the step did
\* to the agents; after a reset previousAgents equals the fresh agents and
\* every displayed delta is zero
C12_PreviousAgentsIsStateBefore ==
    [][/\ lastHandler'.name \in {"step", "tick"} =>
            /\ simulation'.state = simulation.state + 1
            /\ simulation'.previousAgents = simulation.agents
       /\ lastHandler'.name = "reset" =>
            /\ simulation'.previousAgents = simulation'.agents
            /\ \A i \in Agents : \A f \in DOMAIN simulation'.agents[i] :
                   IsZero(Deltas(simulation')[i][f])]_vars

(***************************************************************************)
(* C13                                                                     *)
(***************************************************************************)
\* C13 as written: in stepMultiple(10) updateUI runs for the final state of
\* the batch only
C13_BatchRendersFinalStateOnly ==
    lastHandler.name = "step10" => lastHandler.rendered = <<simulation.state>>

\* C13: in stepMultiple(10) updateUI runs once for every one of the 10
\* states the batch goes through, in their order, the final state last
C13_BatchRendersEveryState ==
    lastHandler.name = "step10" =>
        /\ lastHandler.rendered = [k \in 1..10 |-> lastHandler.entry + k]
        /\ lastHandler.rendered[10] = simulation.state

C13_BatchAfterSteps == lastHandler.name = "step10" /\ lastHandler.entry > 0

(***************************************************************************)
(* C14                                                                     *)
(***************************************************************************)
\* the step index of a snapshot that holds one entry per agent and the same
\* index in each
WellFormed(snapshot) ==
    /\ DOMAIN snapshot = Agents
    /\ Cardinality(DOMAIN snapshot) = 10
    /\ \A i \in Agents : snapshot[i].state = snapshot[0].state

\* C14: in variant 1 the history buffer is never empty, every snapshot holds
\* one entry for each of the ten agents, the step indices of successive
\* snapshots increase by exactly 1, and the newest snapshot is that of the
\* current step index
C14_HistoryIsConsecutiveUpToNow ==
    variant = 1 =>
        /\ simulation.history # <<>>
        /\ \A k \in DOMAIN simulation.history :
               WellFormed(simulation.history[k])
        /\ \A k \in 2..Len(simulation.history) :
               simulation.history[k][0].state =
                   simulation.history[k - 1][0].state + 1
        /\ simulation.history[Len(simulation.history)][0].state =
               simulation.state

C14_TickedPastTheLimit ==
    /\ variant = 1
    /\ lastHandler.name = "tick"
    /\ simulation.history[1][0].state > 0

(***************************************************************************)
(* C15                                                                     *)
(***************************************************************************)
\* x === y and x >= y on numbers: both are false of NaN
StrictEquals(x, y) == ~IsNaN(x) /\ ~IsNaN(y) /\ x = y

GreaterOrEqual(x, y) == ~IsNaN(x) /\ ~IsNaN(y) /\ ~FLess(x, y)

\* C15: in every reachable state agents 1..9 all hold the same nominalValue
\* and agent 0's nominalValue is greater than or equal to it
C15_OthersEqualBelowAccumulator ==
    /\ \A i \in Others :
           StrictEquals(simulation.agents[i].nominalValue,
                        simulation.agents[1].nominalValue)
    /\ GreaterOrEqual(simulation.agents[0].nominalValue,
                      simulation.agents[1].nominalValue)

(***************************************************************************)
(* C16                                                                     *)
(***************************************************************************)
\* C16: in variant 1, once the step index is above 0, every agent's stored
\* breadAffordable is what nominalValue / (total * BREAD_FRACTION) gives for
\* the nominal values and the bread fraction of that state
C16_BreadAffordableIsCurrent ==
    (variant = 1 /\ simulation.state > 0) =>
        \A i \in Agents :
            simulation.agents[i].breadAffordable =
                FDiv(simulation.agents[i].nominalValue,
                     FMul(Total(simulation.agents), CONFIG.BREAD_FRACTION))

C16_FractionMovedBetweenSteps ==
    /\ variant = 1
    /\ lastHandler.name = "breadFraction"
    /\ simulation.state = 1
    /\ CONFIG.BREAD_FRACTION # DEFAULT_BREAD_FRACTION
    /\ simulation.agents[1].breadAffordable #
           simulation.history[2][1].breadAffordable

====
